---------------------------- MODULE Spec2Model ----------------------------
(***************************************************************************)
(* The registry and discovery layer of the ticketing system: the service  *)
(* registry (S3) with its in-memory registration store, its HTTP handlers  *)
(* and its periodic health monitor; the discovery client and proxy of the  *)
(* API gateway; and the helper the services register themselves with.      *)
(* The three run in processes of their own and share no state, so each has *)
(* its own variables and its own specifications.                           *)
(*                                                                         *)
(* JavaScript values are modelled as follows.  The handlers only test      *)
(* request fields with `!x', which does not tell undefined, null, "" and 0 *)
(* apart: a falsy string field is "", a falsy port is 0.  The Map          *)
(* `services' is a sequence of descriptors in insertion order (the order   *)
(* its live iterator walks); `failedChecks' is a function whose domain is  *)
(* the set of keys present.  The running sweeps have no identity of their  *)
(* own, so they are kept as a bag of sweep states.  The registry writes    *)
(* timestamps and never reads them back: a timestamp field is 0 (null) or  *)
(* 1 (a time).                                                             *)
(***************************************************************************)
EXTENDS Integers, Sequences, FiniteSets, Bags, TLC

\* ------------------------------------------------------------- bounds
\* Number of health sweeps that may be running at the same time.
MaxSweeps == 2
\* Number of GET /health/:name requests that may be waiting for their poll.
MaxChecks == 1

\* ------------------------------------------------- program constants
MAX_FAILED_CHECKS == 3

\* ------------------------------------------------------------- inputs
Names == {"svc-a", "svc-b"}
\* The bodies of the register requests sent: complete ones, with and
\* without a health path, and ones with a falsy name, host or port.
Bodies ==
    { [name |-> "svc-a", host |-> "10.0.0.5", port |-> 9000, healthEndpoint |-> ""],
      [name |-> "svc-a", host |-> "10.0.0.6", port |-> 9001, healthEndpoint |-> "/ping"],
      [name |-> "svc-b", host |-> "10.0.0.7", port |-> 9000, healthEndpoint |-> ""],
      [name |-> "", host |-> "10.0.0.5", port |-> 9000, healthEndpoint |-> ""],
      [name |-> "svc-a", host |-> "", port |-> 9000, healthEndpoint |-> "/ping"],
      [name |-> "svc-b", host |-> "10.0.0.7", port |-> 0, healthEndpoint |-> ""] }

VARIABLES
    services,      \* the Map `services', in insertion order
    failedChecks,  \* the Map `failedChecks'
    sweeps,        \* the running performHealthChecks calls, a bag
    req,           \* the request handled by the last step, if it was a handler
    res,           \* the response the handler sent
    polled,        \* the poll completed by the last step, if it was one
    ownFails,      \* history: failed polls in a row of the stored descriptor
    replaced,      \* history: what the last register call overwrote
    checks,        \* the GET /health/:name requests waiting for their poll, a bag
    history        \* whether the sweeps keep the history of what they started with

\* The API gateway's discovery client and proxy.
VARIABLES
    serviceCache,  \* the Map `serviceCache': name -> {url, timestamp}
    now,           \* Date.now(), in milliseconds since the gateway started
    registry,      \* what the registry holds for each name the gateway asks for
    calls,         \* the requests the gateway is handling, a bag
    invalidated,   \* history: the proxy error handler dropped the name's entry
                   \* and no resolve call for the name was started since
    queriedAt,     \* history: when the registry was last queried for the name
    event          \* what the last step of the gateway did

gatewayVars ==
    <<serviceCache, now, registry, calls, invalidated, queriedAt, event>>

\* A service's call of registerWithRetry.
VARIABLES
    registration,  \* the body the helper sends
    attempt,       \* the loop variable `attempt': the attempts made so far
    phase,         \* idle, sending (await registerService), waiting, returned
    lastAnswer,    \* history: what became of the last attempt
    returned       \* what registerWithRetry returned: success, failure, or
                   \* thrown for a rejection

helperVars == <<registration, attempt, phase, lastAnswer, returned>>

registryVars ==
    <<services, failedChecks, sweeps, req, res, polled, ownFails, replaced,
      checks, history>>

\* What the registration handlers, the read handlers and the monitor never
\* touch.
outside == <<checks, history, gatewayVars, helperVars>>

vars == <<registryVars, gatewayVars, helperVars>>

\* ------------------------------------------------------------ helpers
\* `!x' for a string field (name, host, healthEndpoint) and for the port.
Falsy(x) == x = ""
FalsyPort(port) == port = 0

\* (a url built without the port)
UrlWithoutPort(host, port) == "http://" \o host

\* The template literal `http://${host}:${port}`.
Url(host, port) == "http://" \o host \o ":" \o ToString(port)

\* `healthEndpoint || "/health"`.
HealthEndpointOf(healthEndpoint) ==
    IF Falsy(healthEndpoint) THEN "/health" ELSE healthEndpoint

\* services.has(name)
HasIn(svcs, name) == \E i \in 1..Len(svcs) : svcs[i].name = name
Has(name) == HasIn(services, name)

IndexOf(svcs, name) == CHOOSE i \in 1..Len(svcs) : svcs[i].name = name

\* services.get(name), for a name the Map has.
Get(name) == services[IndexOf(services, name)]

\* Map.prototype.set: an existing key keeps its place, a new key goes last.
MapSet(svcs, info) ==
    IF HasIn(svcs, info.name)
    THEN [svcs EXCEPT ![IndexOf(svcs, info.name)] = info]
    ELSE Append(svcs, info)

\* Map.prototype.delete.
MapDelete(svcs, name) == SelectSeq(svcs, LAMBDA e : e.name # name)

\* failedChecks.set(name, n) and failedChecks.delete(name).
CounterSet(fc, name, n) == (name :> n) @@ fc
CounterKept(fc, name) == fc
CounterDelete(fc, name) == [m \in (DOMAIN fc) \ {name} |-> fc[m]]

\* `failedChecks.get(name) || 0`.
CounterGet(fc, name) == IF name \in DOMAIN fc THEN fc[name] ELSE 0

NoRequest == [op |-> "none"]
NoResponse == [code |-> 0]
NoPoll == [name |-> ""]
Nothing == [had |-> FALSE]
\* The end of a sweep's loop.
IdleSweep == [active |-> FALSE]

\* A running sweep: the iterator has yielded `pos' entries of the Map, the
\* last of them was `name', and the poll of the object it yielded is in
\* flight.  `detached' says that this object is no longer the one the Map
\* holds for `name' (the name was re-registered or removed meanwhile).
\* History, kept where `history' is on: `left' counts the entries the Map
\* held when the sweep started that the iterator has still to yield (`ahead'
\* of them before this one), and `late' says that the entry polled was not
\* among them: it was put into the Map after the sweep had started.
Polling(pos, service, ahead) ==
    [active |-> TRUE, pos |-> pos, name |-> service.name, detached |-> FALSE,
     left |-> IF ahead > 0 THEN ahead - 1 ELSE 0,
     late |-> history /\ ahead = 0]

\* What replacing or removing the entry of `name' means for a running
\* sweep: the object it holds for `name' is detached, and (a removal at
\* index `at' > 0) an iterator behind that index moves down with the list,
\* while a removal ahead of it among the entries the sweep started with
\* leaves one entry less of them to yield.
Displace(sw, name, at) ==
    [sw EXCEPT !.detached = @ \/ sw.name = name,
               !.pos = IF at > 0 /\ at <= @ THEN @ - 1 ELSE @,
               !.left = IF at > sw.pos /\ at <= sw.pos + @ THEN @ - 1 ELSE @]

\* The same for all running sweeps.
DisplaceAll(bag, name, at) ==
    LET image == {Displace(sw, name, at) : sw \in DOMAIN bag} IN
    [x \in image |->
        BagCardinality([sw \in {y \in DOMAIN bag : Displace(y, name, at) = x}
                            |-> bag[sw]])]

\* ------------------------------------------------------- POST /register
\* (a register that merges into the descriptor it finds)
MergeServiceInfo(name, host, port, healthEndpoint) ==
    IF Has(name)
    THEN [Get(name) EXCEPT !.host = host, !.port = port,
            !.healthEndpoint = HealthEndpointOf(healthEndpoint),
            !.url = Url(host, port)]
    ELSE [name |-> name, host |-> host, port |-> port,
          healthEndpoint |-> HealthEndpointOf(healthEndpoint),
          lastHealthCheck |-> 0, status |-> "healthy",
          registeredAt |-> 1, url |-> Url(host, port)]

\* The descriptor the handler builds: lastHealthCheck null, registeredAt set.
ServiceInfo(name, host, port, healthEndpoint) ==
    [name |-> name, host |-> host, port |-> port,
     healthEndpoint |-> HealthEndpointOf(healthEndpoint),
     lastHealthCheck |-> 0, status |-> "healthy",
     registeredAt |-> 1, url |-> Url(host, port)]

\* (a validation that forgets the port)
ValidLoose(name, host, port) == ~Falsy(name) /\ ~Falsy(host)

\* The negation of the handler's `!name || !host || !port`.
Valid(name, host, port) == ~Falsy(name) /\ ~Falsy(host) /\ ~FalsyPort(port)

Register(name, host, port, healthEndpoint) ==
    /\ UNCHANGED outside
    /\ req' = [op |-> "register", name |-> name, host |-> host,
               port |-> port, healthEndpoint |-> healthEndpoint]
    /\ polled' = NoPoll
    /\ IF ~Valid(name, host, port)
       THEN /\ res' = [code |-> 400]
            /\ replaced' = Nothing
            /\ UNCHANGED <<services, failedChecks, sweeps, ownFails>>
       ELSE LET info == ServiceInfo(name, host, port, healthEndpoint) IN
            /\ services' = MapSet(services, info)
            /\ replaced' = IF Has(name)
                           THEN [had |-> TRUE, service |-> Get(name),
                                 failures |-> CounterGet(failedChecks, name)]
                           ELSE Nothing
            /\ failedChecks' = CounterSet(failedChecks, name, 0)
            /\ sweeps' = DisplaceAll(sweeps, name, 0)
            /\ ownFails' = [ownFails EXCEPT ![name] = 0]
            /\ res' = [code |-> 201, service |-> info]

\* ------------------------------------------- DELETE /deregister/:name
Deregister(name) ==
    /\ UNCHANGED outside
    /\ req' = [op |-> "deregister", name |-> name]
    /\ polled' = NoPoll
    /\ replaced' = Nothing
    /\ IF ~Has(name)
       THEN /\ res' = [code |-> 404]
            /\ UNCHANGED <<services, failedChecks, sweeps, ownFails>>
       ELSE /\ services' = MapDelete(services, name)
            /\ failedChecks' = CounterDelete(failedChecks, name)
            /\ sweeps' = DisplaceAll(sweeps, name, IndexOf(services, name))
            /\ ownFails' = [ownFails EXCEPT ![name] = 0]
            /\ res' = [code |-> 200]

\* ------------------------------------------------------- GET /services
ListResponse == [code |-> 200, count |-> Len(services), services |-> services]

List ==
    /\ UNCHANGED outside
    /\ req' = [op |-> "list"]
    /\ res' = ListResponse
    /\ polled' = NoPoll
    /\ replaced' = Nothing
    /\ UNCHANGED <<services, failedChecks, sweeps, ownFails>>

\* ------------------------------------------------- GET /services/:name
GetResponse(name) ==
    IF ~Has(name) THEN [code |-> 404]
    ELSE [code |-> 200, service |-> Get(name)]

GetService(name) ==
    /\ UNCHANGED outside
    /\ req' = [op |-> "get", name |-> name]
    /\ res' = GetResponse(name)
    /\ polled' = NoPoll
    /\ replaced' = Nothing
    /\ UNCHANGED <<services, failedChecks, sweeps, ownFails>>

\* ------------------------------------------------- GET /discover/:name
\* (a discover that is the plain alias of GET /services/:name)
DiscoverAlias(name) ==
    IF ~Has(name) THEN [code |-> 404]
    ELSE LET service == Get(name) IN
         [code |-> 200, name |-> service.name, url |-> service.url,
          host |-> service.host, port |-> service.port,
          status |-> service.status]

DiscoverResponse(name) ==
    IF ~Has(name) THEN [code |-> 404]
    ELSE LET service == Get(name) IN
         IF service.status # "healthy"
         THEN [code |-> 503, service |-> service]
         ELSE [code |-> 200, name |-> service.name, url |-> service.url,
               host |-> service.host, port |-> service.port,
               status |-> service.status]

Discover(name) ==
    /\ UNCHANGED outside
    /\ req' = [op |-> "discover", name |-> name]
    /\ res' = DiscoverResponse(name)
    /\ polled' = NoPoll
    /\ replaced' = Nothing
    /\ UNCHANGED <<services, failedChecks, sweeps, ownFails>>

\* ------------------------------------------------- performHealthChecks
\* The iterator's next step of sweep `sw' over the Map `svcs': the poll of
\* the next entry (checkServiceHealth builds its URL and sends the GET), or
\* the end of the loop.
NextPoll(sw, svcs) ==
    IF sw.pos < Len(svcs)
    THEN Polling(sw.pos + 1, svcs[sw.pos + 1], sw.left)
    ELSE IdleSweep

\* (a loop that starts the next poll without awaiting it)
StartedTwice(next) ==
    IF next.active THEN SetToBag({next}) (+) SetToBag({next}) ELSE EmptyBag

\* The bag of the sweep that goes on with `next', if it does.
Started(next) == IF next.active THEN SetToBag({next}) ELSE EmptyBag

\* setInterval fires: a sweep starts and runs up to its first await.  It is
\* started whether or not an earlier sweep is still running.
TimerTick ==
    /\ UNCHANGED outside
    /\ BagCardinality(sweeps) < MaxSweeps
    /\ sweeps' = sweeps (+) Started(NextPoll([pos |-> 0,
                                              left |-> IF history THEN Len(services) ELSE 0],
                                             services))
    /\ req' = NoRequest
    /\ res' = NoResponse
    /\ replaced' = Nothing
    /\ polled' = NoPoll
    /\ UNCHANGED <<services, failedChecks, ownFails>>

\* (a loop body that stores the object it holds back under its name)
TouchAndStore(svcs, sw, status) ==
    IF ~HasIn(svcs, sw.name)
    THEN Append(svcs, [name |-> sw.name, host |-> "10.0.0.5", port |-> 9000,
                       healthEndpoint |-> "/health", lastHealthCheck |-> 1,
                       status |-> status, registeredAt |-> 1,
                       url |-> Url("10.0.0.5", 9000)])
    ELSE IF sw.detached THEN svcs
    ELSE [svcs EXCEPT ![IndexOf(svcs, sw.name)] =
            [@ EXCEPT !.lastHealthCheck = 1, !.status = status]]

\* (a loop body that writes the opposite of what the poll found)
TouchInverted(svcs, sw, status) ==
    IF sw.detached THEN svcs
    ELSE [svcs EXCEPT ![IndexOf(svcs, sw.name)] =
            [@ EXCEPT !.lastHealthCheck = 1,
                      !.status = IF status = "healthy" THEN "unhealthy"
                                 ELSE "healthy"]]

\* (a loop body that writes the status and forgets the time of the check)
TouchStatusOnly(svcs, sw, status) ==
    IF sw.detached THEN svcs
    ELSE [svcs EXCEPT ![IndexOf(svcs, sw.name)] = [@ EXCEPT !.status = status]]

\* The writes of lines 291-304 to the object the sweep holds.  They show in
\* the Map only while that object is still the one stored under its name.
Touch(svcs, sw, status) ==
    IF sw.detached THEN svcs
    ELSE [svcs EXCEPT ![IndexOf(svcs, sw.name)] =
            [@ EXCEPT !.lastHealthCheck = 1, !.status = status]]

\* (a success branch that leaves the counter alone)
CountedNoReset(fc, name, healthy) ==
    CounterGet(fc, name) + (IF healthy THEN 0 ELSE 1)

\* (a failure branch that counts the first failure only)
CountedOnce(fc, name, healthy) == IF healthy THEN 0 ELSE 1

\* The failure counter after a poll with the given outcome.
Counted(fc, name, healthy) ==
    IF healthy THEN 0 ELSE CounterGet(fc, name) + 1

\* (an eviction test that is off by one)
EvictsLate(newFailures, healthy) == ~healthy /\ newFailures > MAX_FAILED_CHECKS

\* `newFailures >= MAX_FAILED_CHECKS` on the failure branch.
Evicts(newFailures, healthy) == ~healthy /\ newFailures >= MAX_FAILED_CHECKS

\* The timer fires while no sweep is running.
TimerTickAlone ==
    /\ sweeps = EmptyBag
    /\ TimerTick

\* The await of a sweep in state `sw' returns with the outcome `healthy':
\* the loop body runs to its end and the loop goes on to the next entry's
\* poll.
PollComplete(sw, healthy) ==
    /\ UNCHANGED outside
    /\ BagIn(sw, sweeps)
    /\ LET name == sw.name
           touched == Touch(services, sw, IF healthy THEN "healthy" ELSE "unhealthy")
           newFailures == Counted(failedChecks, name, healthy)
           evict == Evicts(newFailures, healthy)
           at == IF evict /\ Has(name) THEN IndexOf(services, name) ELSE 0
           svcs == IF evict THEN MapDelete(touched, name) ELSE touched
           others == sweeps (-) SetToBag({sw})
           moved == IF evict THEN DisplaceAll(others, name, at) ELSE others
           self == IF evict THEN Displace(sw, name, at) ELSE sw
       IN /\ services' = svcs
          /\ failedChecks' = IF evict THEN CounterDelete(failedChecks, name)
                             ELSE CounterSet(failedChecks, name, newFailures)
          /\ sweeps' = moved (+) Started(NextPoll(self, svcs))
          /\ polled' = [name |-> name, healthy |-> healthy,
                        detached |-> sw.detached,
                        prior |-> CounterGet(failedChecks, name),
                        removed |-> evict /\ Has(name)]
          /\ ownFails' =
                IF healthy THEN [ownFails EXCEPT ![name] = 0]
                ELSE IF sw.detached THEN ownFails
                ELSE [ownFails EXCEPT ![name] =
                        IF @ < MAX_FAILED_CHECKS THEN @ + 1 ELSE @]
    /\ req' = NoRequest
    /\ res' = NoResponse
    /\ replaced' = Nothing

\* The await of some running sweep returns, with either outcome.
PollCompletes ==
    \E sw \in BagToSet(sweeps), healthy \in BOOLEAN : PollComplete(sw, healthy)

\* --------------------------------------------------- GET /health/:name
\* The body the handler answers with once checkServiceHealth has returned.
HealthResponse(name, healthy) ==
    [code |-> 200, service |-> name,
     status |-> IF healthy THEN "healthy" ELSE "unhealthy",
     lastCheck |-> 1]

\* The handler up to its await: 404 for a name that is not stored, otherwise
\* the descriptor is read and its poll is sent.
CheckHealth(name) ==
    /\ req' = [op |-> "health", name |-> name]
    /\ polled' = NoPoll
    /\ replaced' = Nothing
    /\ UNCHANGED <<services, failedChecks, sweeps, ownFails, history, gatewayVars, helperVars>>
    /\ IF ~Has(name)
       THEN /\ res' = [code |-> 404]
            /\ checks' = checks
       ELSE /\ BagCardinality(checks) < MaxChecks
            /\ res' = NoResponse
            /\ checks' = checks (+) SetToBag({name})

\* (a handler that records the result of its poll as the monitor does)
CheckHealthRecorded(name, healthy) ==
    /\ BagIn(name, checks)
    /\ checks' = checks (-) SetToBag({name})
    /\ req' = [op |-> "health", name |-> name]
    /\ res' = HealthResponse(name, healthy)
    /\ polled' = NoPoll
    /\ replaced' = Nothing
    /\ failedChecks' =
          IF Has(name)
          THEN CounterSet(failedChecks, name, Counted(failedChecks, name, healthy))
          ELSE failedChecks
    /\ UNCHANGED <<services, sweeps, ownFails, history, gatewayVars, helperVars>>

\* The handler after its await: the poll has returned and is answered.
CheckHealthDone(name, healthy) ==
    /\ BagIn(name, checks)
    /\ checks' = checks (-) SetToBag({name})
    /\ req' = [op |-> "health", name |-> name]
    /\ res' = HealthResponse(name, healthy)
    /\ polled' = NoPoll
    /\ replaced' = Nothing
    /\ UNCHANGED <<services, failedChecks, sweeps, ownFails, history, gatewayVars, helperVars>>

RegistryInit ==
    /\ services = <<>>
    /\ failedChecks = <<>>
    /\ sweeps = EmptyBag
    /\ req = NoRequest
    /\ res = NoResponse
    /\ polled = NoPoll
    /\ ownFails = [n \in Names |-> 0]
    /\ replaced = Nothing
    /\ checks = EmptyBag

\* ====================================================== the API gateway
\* The discovery client (discoverService) and the proxy built on it
\* (createDynamicProxy).  The gateway sees the registry through the answers
\* of GET /discover/:name.

\* ------------------------------------------------------------- bounds
\* Number of requests the gateway may be handling at the same time.
MaxCalls == 2
\* The clock advances MaxTicks times, by TickMs each time.
TickMs == 15000
MaxTicks == 2

\* ------------------------------------------------- program constants
CACHE_TTL == 30000

\* The table `fallbackUrls'.
FallbackUrls ==
    "s1-auth" :> "http://s1-auth-account:3001" @@
    "s2-tickets" :> "http://s2-ticket-intake:3002" @@
    "s4-workflow" :> "http://s4-workflow:3004" @@
    "s5-media" :> "http://s5-media:3005" @@
    "s6-notifications" :> "http://s6-notifications:3006" @@
    "s7-analytics" :> "http://s7-analytics:3007" @@
    "s8-feedback" :> "http://s8-feedback:3008"

\* ------------------------------------------------------------- inputs
\* The service names the routes are created for: one of the table, and one
\* that the table does not list.
GatewayNames == {"s1-auth", "s9-reports"}

\* The url the registry holds for a name while it is registered.
RegisteredUrl ==
    "s1-auth" :> Url("10.1.0.1", 3001) @@ "s9-reports" :> Url("10.1.0.9", 3009)

\* What the registry may hold for a name: nothing, or a descriptor whose
\* status is healthy or unhealthy.
RegistryStates == {"absent", "healthy", "unhealthy"}

\* What can come back from the GET of /discover/:name: no answer (connection
\* error or timeout), the registry's 404, 503 or 200, or a 2xx answer whose
\* body has no url.
Answers(name) ==
    {"unreachable", "nourl"} \cup
    { CASE registry[name] = "absent" -> "notfound"
        [] registry[name] = "unhealthy" -> "unhealthy"
        [] OTHER -> "ok" }

NoTime == -1

\* What a step of the gateway did: the operation, the name it was for, the
\* kind of answer the registry gave, the address the request was routed to
\* and where the address came from, and the status the gateway answered
\* with itself (0: none).
Event(op, name, kind, url, via, code) ==
    [op |-> op, name |-> name, kind |-> kind, url |-> url, via |-> via,
     code |-> code]

NoEvent == Event("none", "", "", "", "", 0)

\* A request the gateway is handling: discoverService awaits the registry's
\* answer (pc "discover"), or the request has been handed to the proxy and
\* awaits the upstream (pc "proxy").
Call(name, pc) == [name |-> name, pc |-> pc, target |-> ""]

\* The request handed to the proxy with the url that discoverService
\* returned for it (history: the url is kept only where it is asked for).
Routed(name, url) ==
    [Call(name, "proxy") EXCEPT !.target = IF history THEN url ELSE ""]

\* ----------------------------------------------------- discoverService
\* (a freshness test with the comparison turned round)
FreshReversed(cache, name, t) ==
    /\ name \in DOMAIN cache
    /\ t - cache[name].timestamp > CACHE_TTL

\* (a freshness test that lets an entry live for exactly TTL)
FreshOrDue(cache, name, t) ==
    /\ name \in DOMAIN cache
    /\ t - cache[name].timestamp <= CACHE_TTL

\* `cached && Date.now() - cached.timestamp < CACHE_TTL`.
Fresh(cache, name, t) ==
    /\ name \in DOMAIN cache
    /\ t - cache[name].timestamp < CACHE_TTL

\* serviceCache.set(name, {url, timestamp}) and serviceCache.delete(name).
CacheSet(cache, name, url, t) ==
    (name :> [url |-> url, timestamp |-> t]) @@ cache
CacheDelete(cache, name) ==
    [n \in (DOMAIN cache) \ {name} |-> cache[n]]

\* A request for the route of `name' arrives: discoverService runs up to its
\* return of the cached url, after which the request is handed to the
\* proxy, or up to its await of the registry's answer.
ResolveStart(name) ==
    /\ BagCardinality(calls) < MaxCalls
    /\ invalidated' = [invalidated EXCEPT ![name] = FALSE]
    /\ IF Fresh(serviceCache, name, now)
       THEN /\ calls' = calls (+)
                           SetToBag({Routed(name, serviceCache[name].url)})
            /\ event' = Event("resolve", name, "", serviceCache[name].url,
                              "cache", 0)
            /\ queriedAt' = queriedAt
       ELSE /\ calls' = calls (+) SetToBag({Call(name, "discover")})
            /\ event' = Event("resolve", name, "", "", "", 0)
            /\ queriedAt' = [queriedAt EXCEPT ![name] = now]
    /\ UNCHANGED <<serviceCache, now, registry, registryVars, helperVars>>

\* (a table that lists nothing)
FallbackNone(name) == ""

\* `fallbackUrls[serviceName]': the address, or "" for undefined.
FallbackOf(name) ==
    IF name \in DOMAIN FallbackUrls THEN FallbackUrls[name] ELSE ""

\* (a catch block that remembers the fallback address it returns)
FailedCached(cache, name, t) ==
    IF name \in DOMAIN FallbackUrls
    THEN CacheSet(cache, name, FallbackUrls[name], t)
    ELSE cache

\* The cache after the catch block has run.
Failed(cache, name, t) == cache

\* The registry's answer arrives, or the GET fails: the rest of discoverService
\* and of the route's handler.  A 200 with a url is cached and returned;
\* everything else ends in the catch block, which returns the fallback url of
\* the name or throws, and then the handler answers 503.
DiscoverReply(name, answer) ==
    /\ BagIn(Call(name, "discover"), calls)
    /\ answer \in Answers(name)
    /\ IF answer = "ok"
       THEN /\ serviceCache' =
                  CacheSet(serviceCache, name, RegisteredUrl[name], now)
            /\ calls' = (calls (-) SetToBag({Call(name, "discover")}))
                           (+) SetToBag({Routed(name, RegisteredUrl[name])})
            /\ event' = Event("reply", name, answer, RegisteredUrl[name],
                              "registry", 0)
       ELSE /\ serviceCache' = Failed(serviceCache, name, now)
            /\ IF FallbackOf(name) # ""
               THEN /\ calls' = (calls (-) SetToBag({Call(name, "discover")}))
                                   (+) SetToBag({Routed(name, FallbackOf(name))})
                    /\ event' = Event("reply", name, answer,
                                      FallbackOf(name), "fallback", 0)
               ELSE /\ calls' = calls (-) SetToBag({Call(name, "discover")})
                    /\ event' = Event("reply", name, answer, "", "", 503)
    /\ UNCHANGED <<now, registry, invalidated, queriedAt, registryVars, helperVars>>

\* ---------------------------------------------------- createDynamicProxy
\* The upstream answers and the answer is passed on, or the proxy fails:
\* onError drops the name's cache entry and answers 502.
ProxyDone(name, ok) ==
    /\ \E call \in BagToSet(calls) :
          /\ call.name = name /\ call.pc = "proxy"
          /\ calls' = calls (-) SetToBag({call})
          /\ event' = Event("proxied", name, "", call.target, "",
                            IF ok THEN 200 ELSE 502)
    /\ IF ok
       THEN UNCHANGED <<serviceCache, invalidated>>
       ELSE /\ serviceCache' = CacheDelete(serviceCache, name)
            /\ invalidated' = [invalidated EXCEPT ![name] = TRUE]
    /\ UNCHANGED <<now, registry, queriedAt, registryVars, helperVars>>

\* ------------------------------------------------------ the environment
\* Time passes.
Advance ==
    /\ now < MaxTicks * TickMs
    /\ now' = now + TickMs
    /\ event' = NoEvent
    /\ UNCHANGED <<serviceCache, registry, calls, invalidated, queriedAt,
                   registryVars, helperVars>>

\* The registry's entry of a name changes: it is registered, removed, or
\* its status is changed by the monitor.
RegistryChanges(name, to) ==
    /\ registry[name] # to
    /\ registry' = [registry EXCEPT ![name] = to]
    /\ event' = NoEvent
    /\ UNCHANGED <<serviceCache, now, calls, invalidated, queriedAt,
                   registryVars, helperVars>>

GatewayInit ==
    /\ serviceCache = <<>>
    /\ now = 0
    /\ registry = [n \in GatewayNames |-> "absent"]
    /\ calls = EmptyBag
    /\ invalidated = [n \in GatewayNames |-> FALSE]
    /\ queriedAt = [n \in GatewayNames |-> NoTime]
    /\ event = NoEvent

GatewayNext ==
    \/ \E name \in GatewayNames : ResolveStart(name)
    \/ \E name \in GatewayNames,
          answer \in {"unreachable", "nourl", "notfound", "unhealthy", "ok"} :
           DiscoverReply(name, answer)
    \/ \E name \in GatewayNames, ok \in BOOLEAN : ProxyDone(name, ok)
    \/ Advance
    \/ \E name \in GatewayNames, to \in RegistryStates : RegistryChanges(name, to)

\* ======================================== the self-registration helper
\* registerWithRetry and registerService of the services' register-helper.

\* ------------------------------------------------- program constants
\* The default of the parameter `maxRetries'.
maxRetries == 5

\* What can become of one POST /register: no answer (the request's 'error'
\* event), or the registry's answer, which is 400 for a body the handler's
\* validation rejects, 201 for any other, or 500 from its catch block.
RegisterAnswers(body) ==
    {"error", "500"} \cup
    {IF Valid(body.name, body.host, body.port) THEN "201" ELSE "400"}

\* How the promise of registerService settles: resolved with the parsed
\* body on a 2xx, rejected on any other status, resolved with
\* {success: false} on the 'error' event.
RegisterService(answer) ==
    CASE answer = "error" -> "failed"
      [] answer = "201" -> "ok"
      [] OTHER -> "rejected"

\* (a loop body without its catch block)
Uncaught(settled) == settled

\* The try/catch of the loop body: a rejection ends in the catch block,
\* which goes on as after {success: false}.
Caught(settled) == IF settled = "rejected" THEN "failed" ELSE settled

\* (a loop that goes round once more)
AgainOnceMore(n) == n <= maxRetries

\* `attempt < maxRetries`: the loop waits and goes round again.
Again(n) == n < maxRetries

\* A service starts and calls registerWithRetry: the first attempt is sent.
HelperStart(body) ==
    /\ phase = "idle"
    /\ registration' = body
    /\ attempt' = 1
    /\ phase' = "sending"
    /\ lastAnswer' = "none"
    /\ UNCHANGED <<returned, registryVars, gatewayVars>>

\* The await of registerService returns or throws.
AttemptDone(answer) ==
    /\ phase = "sending"
    /\ answer \in RegisterAnswers(registration)
    /\ lastAnswer' = answer
    /\ LET result == Caught(RegisterService(answer)) IN
       CASE result = "ok" ->
               phase' = "returned" /\ returned' = "success"
         [] result = "failed" /\ Again(attempt) ->
               phase' = "waiting" /\ returned' = returned
         [] result = "failed" /\ ~Again(attempt) ->
               phase' = "returned" /\ returned' = "failure"
         [] OTHER ->
               phase' = "returned" /\ returned' = "thrown"
    /\ UNCHANGED <<registration, attempt, registryVars, gatewayVars>>

\* The registry accepts the connection and never answers: http.request has
\* no timeout, so neither the response callback nor the error handler runs
\* and the promise of registerService is never settled.
NoAnswer ==
    /\ phase = "sending"
    /\ phase' = "hung"
    /\ UNCHANGED <<registration, attempt, lastAnswer, returned, registryVars,
                   gatewayVars>>

\* The delay is over: attempt++ and the next attempt is sent.
DelayDone ==
    /\ phase = "waiting"
    /\ attempt' = attempt + 1
    /\ phase' = "sending"
    /\ UNCHANGED <<registration, lastAnswer, returned, registryVars,
                   gatewayVars>>

\* The await of registerService ends in one of the ways it can.
AttemptDoneAny ==
    \E answer \in {"error", "201", "400", "500"} : AttemptDone(answer)

HelperInit ==
    /\ registration = [name |-> "", host |-> "", port |-> 0, healthEndpoint |-> ""]
    /\ attempt = 0
    /\ phase = "idle"
    /\ lastAnswer = "none"
    /\ returned = "none"

HelperNext ==
    \/ \E body \in Bodies : HelperStart(body)
    \/ AttemptDoneAny
    \/ NoAnswer
    \/ DelayDone

Init ==
    /\ RegistryInit
    /\ history = FALSE
    /\ GatewayInit
    /\ HelperInit

Next ==
    \/ \E body \in Bodies :
           Register(body.name, body.host, body.port, body.healthEndpoint)
    \/ \E name \in Names : Deregister(name)
    \/ List
    \/ \E name \in Names : GetService(name)
    \/ \E name \in Names : Discover(name)
    \/ TimerTick
    \/ PollCompletes

Spec == Init /\ [][Next]_vars

\* The registry with its on-demand health check, beside the registration
\* handlers and the monitor.  The requests that wait for their poll take the
\* place of the overlapping sweeps here: a sweep starts when none is running.
HealthNext ==
    \/ \E body \in Bodies :
           Register(body.name, body.host, body.port, body.healthEndpoint)
    \/ \E name \in Names : Deregister(name)
    \/ TimerTickAlone
    \/ PollCompletes
    \/ \E name \in Names : CheckHealth(name)
    \/ \E name \in Names, healthy \in BOOLEAN : CheckHealthDone(name, healthy)

SpecHealth == Init /\ [][HealthNext]_vars

\* The registration handlers and the monitor, with the sweeps keeping the
\* history of the entries they started with; one sweep runs at a time.
SweepInit ==
    /\ RegistryInit
    /\ history = TRUE
    /\ GatewayInit
    /\ HelperInit

SweepNext ==
    \/ \E body \in Bodies :
           Register(body.name, body.host, body.port, body.healthEndpoint)
    \/ \E name \in Names : Deregister(name)
    \/ TimerTickAlone
    \/ PollCompletes

SpecSweep == SweepInit /\ [][SweepNext]_vars

\* The same with the polls fair: checkServiceHealth gives up after
\* HEALTH_CHECK_TIMEOUT, so the await of a running sweep always returns.
SpecSweepFair == SweepInit /\ [][SweepNext]_vars /\ WF_vars(PollCompletes)

\* The gateway beside a registry whose entries change as they may.
\* The health monitor with its scheduling.  setInterval fires every
\* HEALTH_CHECK_INTERVAL whatever the earlier sweeps do, and every poll
\* returns within HEALTH_CHECK_TIMEOUT; of that, only that some running
\* poll returns is assumed.
MonitorNext ==
    \/ \E body \in Bodies :
           Register(body.name, body.host, body.port, body.healthEndpoint)
    \/ \E name \in Names : Deregister(name)
    \/ TimerTick
    \/ PollCompletes

SpecMonitorFair ==
    /\ Init
    /\ [][MonitorNext]_vars
    /\ SF_vars(TimerTick)
    /\ WF_vars(PollCompletes)

SpecGateway == Init /\ [][GatewayNext]_vars

\* The same, with every proxied request keeping the url it was routed to.
SpecGatewayRouted == SweepInit /\ [][GatewayNext]_vars

\* A service registering itself at start-up.
SpecHelper == Init /\ [][HelperNext]_vars

\* The same with its scheduling: an answer or a connection error that can
\* arrive does arrive, and the timer of the delay fires.
SpecHelperFair ==
    /\ Init
    /\ [][HelperNext]_vars
    /\ WF_vars(AttemptDoneAny)
    /\ WF_vars(DelayDone)

\* ----------------------------------------------------------- properties
Listed(name) ==
    \E i \in 1..Len(ListResponse.services) : ListResponse.services[i].name = name

NotFound(name) ==
    /\ GetResponse(name).code = 404
    /\ DiscoverResponse(name).code = 404
    /\ ~Listed(name)

\* A poll of `name' is in flight in some sweep.
InFlight(name) ==
    \E sw \in BagToSet(sweeps) : sw.name = name

\* C1: a discover run in the state a register call with name, host and
\* port leaves behind answers 200 with status healthy and the url
\* http://host:port of that call, also while a poll of the name is in
\* flight.
C1_DiscoverAfterRegister ==
    (req.op = "register" /\ req.name # "" /\ req.host # "" /\ req.port # 0)
    => /\ res.code = 201
       /\ DiscoverResponse(req.name) =
            [code |-> 200, name |-> req.name,
             url |-> "http://" \o req.host \o ":" \o ToString(req.port),
             host |-> req.host, port |-> req.port, status |-> "healthy"]

\* Witness of C1: a register call has just replaced an unhealthy descriptor
\* whose poll is still in flight.
C1_Witness ==
    /\ req.op = "register" /\ res.code = 201
    /\ InFlight(req.name)
    /\ replaced.had /\ replaced.service.status = "unhealthy"

C3_EvictedAtThreshold ==
    \A n \in Names : ownFails[n] >= MAX_FAILED_CHECKS => ~Has(n) /\ NotFound(n)

\* Witness of C3: the third failed poll in a row has just removed the
\* descriptor.
C3_Witness ==
    /\ polled.name # "" /\ polled.removed /\ ~polled.detached
    /\ ownFails[polled.name] = MAX_FAILED_CHECKS
    /\ NotFound(polled.name)

\* C4 (as claimed): a descriptor whose own polls have failed exactly
\* MAX_FAILED_CHECKS - 1 times in a row since its registration is still in
\* the store with status unhealthy: discover answers 503, list and get
\* return it.
C4_Claim ==
    \A n \in Names :
        ownFails[n] = MAX_FAILED_CHECKS - 1
        => /\ Has(n)
           /\ Get(n).status = "unhealthy"
           /\ DiscoverResponse(n).code = 503
           /\ GetResponse(n).code = 200
           /\ Listed(n)

\* C5: when a periodic poll of a stored descriptor succeeds, the descriptor
\* is healthy with failure counter 0 at the end of that step, and discover
\* answers 200, whatever the number of failures before.
C5_SuccessResets ==
    (polled.name # "" /\ polled.healthy /\ ~polled.detached)
    => /\ Has(polled.name)
       /\ Get(polled.name).status = "healthy"
       /\ polled.name \in DOMAIN failedChecks
       /\ failedChecks[polled.name] = 0
       /\ DiscoverResponse(polled.name).code = 200

\* Witness of C5: a poll has just succeeded after MAX_FAILED_CHECKS - 1
\* failures.
C5_Witness ==
    /\ polled.name # "" /\ polled.healthy /\ ~polled.detached
    /\ polled.prior = MAX_FAILED_CHECKS - 1
    /\ DiscoverResponse(polled.name).code = 200

\* C6: a name that is not in the store gets 404 from get and discover, and
\* it enters the store only by a register call for it: no step of the
\* health monitor inserts a descriptor.
C6_RemovalIsTerminal ==
    /\ [](\A n \in Names : ~Has(n) => NotFound(n))
    /\ [][\A n \in Names :
            (~HasIn(services, n) /\ HasIn(services', n))
            => (req'.op = "register" /\ req'.name = n /\ res'.code = 201)]_vars

\* Witness of C6: a poll started before the removal of its name has just
\* completed, and the name is still absent.
C6_Witness ==
    /\ polled.name # "" /\ polled.detached
    /\ ~Has(polled.name) /\ NotFound(polled.name)

\* C7 (as claimed): the health monitor removes a stored descriptor only by
\* a failed poll of that very descriptor that is its MAX_FAILED_CHECKS-th
\* failed poll in a row.
C7_Claim ==
    (polled.name # "" /\ polled.removed)
    => /\ ~polled.detached
       /\ ownFails[polled.name] >= MAX_FAILED_CHECKS

\* C8: the store holds at most one descriptor per name, and a successful
\* register call leaves exactly the descriptor of its request under the
\* name: its host, port, health path and url, healthy, counter 0, whatever
\* it overwrote.
C8_LastWriterWins ==
    /\ \A i, j \in 1..Len(services) :
          services[i].name = services[j].name => i = j
    /\ (req.op = "register" /\ res.code = 201)
       => /\ Has(req.name)
          /\ Get(req.name) =
               [name |-> req.name, host |-> req.host, port |-> req.port,
                healthEndpoint |-> IF req.healthEndpoint = "" THEN "/health"
                                   ELSE req.healthEndpoint,
                lastHealthCheck |-> 0, status |-> "healthy",
                registeredAt |-> 1,
                url |-> "http://" \o req.host \o ":" \o ToString(req.port)]
          /\ res.service = Get(req.name)
          /\ req.name \in DOMAIN failedChecks
          /\ failedChecks[req.name] = 0

\* Witness of C8: a register call has just overwritten an unhealthy
\* descriptor with two failures, registered at another address.
C8_Witness ==
    /\ req.op = "register" /\ res.code = 201
    /\ replaced.had
    /\ replaced.service.status = "unhealthy"
    /\ replaced.failures = MAX_FAILED_CHECKS - 1
    /\ replaced.service.host # req.host
    /\ replaced.service.port # req.port
    /\ replaced.service.healthEndpoint # Get(req.name).healthEndpoint

\* C9: a register call with a falsy name, host or port answers 400 and
\* leaves the store and the failure counters as they were.
C9_InvalidRegister ==
    [][(req'.op = "register"
        /\ (req'.name = "" \/ req'.host = "" \/ req'.port = 0))
       => /\ res'.code = 400
          /\ services' = services
          /\ failedChecks' = failedChecks]_vars

\* Witness of C9: a register call for a stored, unhealthy name has just
\* been rejected, and the descriptor and its counter are still there.
C9_Witness ==
    /\ req.op = "register" /\ res.code = 400
    /\ req.name # "" /\ Has(req.name)
    /\ Get(req.name).status = "unhealthy"
    /\ failedChecks[req.name] > 0

\* C10: deregister of a stored name answers 200, removes its descriptor
\* and its counter and nothing else (get and discover then answer 404, list
\* omits it); deregister of an absent name answers 404 and changes nothing.
C10_Deregister ==
    [][\A n \in Names :
        (req'.op = "deregister" /\ req'.name = n)
        => IF HasIn(services, n)
           THEN /\ res'.code = 200
                /\ services' = SelectSeq(services, LAMBDA e : e.name # n)
                /\ failedChecks' =
                     [m \in (DOMAIN failedChecks) \ {n} |-> failedChecks[m]]
                /\ NotFound(n)'
           ELSE /\ res'.code = 404
                /\ services' = services
                /\ failedChecks' = failedChecks]_vars

\* Witness of C10: a deregister has just removed one of two descriptors
\* while its poll was in flight.
C10_Witness ==
    /\ req.op = "deregister" /\ res.code = 200
    /\ NotFound(req.name)
    /\ Len(services) = 1
    /\ InFlight(req.name)

\* C11: GET /health/:name changes nothing in the registry.  Neither the
\* step that sends the poll nor the step that answers with its result
\* changes a descriptor (status, last-checked time), a failure counter or
\* the membership of the store, so no eviction comes from it; the answer to
\* a waiting request is 200 with the result of one poll, which then no
\* longer waits; for a name that is not stored the answer is 404 and no
\* poll is sent.
C11_HealthCheckReadOnly ==
    [][req'.op = "health" =>
          /\ services' = services
          /\ failedChecks' = failedChecks
          /\ sweeps' = sweeps
          /\ (~Has(req'.name) /\ ~BagIn(req'.name, checks) =>
                 res'.code = 404 /\ checks' = checks)
          /\ (res'.code = 200 =>
                 /\ BagIn(req'.name, checks)
                 /\ checks' = checks (-) SetToBag({req'.name})
                 /\ res'.service = req'.name
                 /\ res'.status \in {"healthy", "unhealthy"})
          /\ (res'.code = 0 =>
                 /\ Has(req'.name)
                 /\ checks' = checks (+) SetToBag({req'.name}))]_vars

\* An on-demand poll of a stored service one failure short of eviction has
\* failed and was answered.
C11_Witness ==
    /\ req.op = "health"
    /\ res.code = 200
    /\ res.status = "unhealthy"
    /\ Has(req.name)
    /\ CounterGet(failedChecks, req.name) = MAX_FAILED_CHECKS - 1

\* C20: a sweep polls only entries that were in the store when it started:
\* no running sweep is polling an entry that was put into the Map after the
\* sweep had started (a name registered, or deregistered and registered
\* again, while the sweep was running).
C20_Claim ==
    \A sw \in BagToSet(sweeps) : ~sw.late

\* The last step started a resolve call that sent a query to the registry.
\* (as an action: Queried' is about the step taken)
Queried == event.op = "resolve" /\ event.via = ""

\* The age of the cache entry of a name, which has one.
Age(name) == now - serviceCache[name].timestamp

\* C12 as claimed: whenever a resolve call sends a query to the registry,
\* no query for the same name was sent less than CACHE_TTL before, however
\* the calls interleave and whatever became of the earlier call.
C12_Claim ==
    [][Queried' =>
          \/ queriedAt[event'.name] = NoTime
          \/ now - queriedAt[event'.name] >= CACHE_TTL]_vars

\* C12 amended: a resolve call started while the cache holds an entry of the
\* name that is younger than CACHE_TTL (an earlier call's successful
\* discovery, not dropped since) sends no query to the registry and is
\* routed to the cached url.
C12_FreshEntryNoQuery ==
    [][event'.op = "resolve"
          /\ event'.name \in DOMAIN serviceCache
          /\ Age(event'.name) < CACHE_TTL
       => /\ event'.via = "cache"
          /\ event'.url = serviceCache[event'.name].url
          /\ queriedAt' = queriedAt
          /\ calls' = calls (+) SetToBag({Call(event'.name, "proxy")})]_vars

\* A second call, later than the one that filled the cache and within
\* CACHE_TTL of it, was served from the cache.
C12_Witness ==
    /\ event.op = "resolve"
    /\ event.via = "cache"
    /\ Age(event.name) > 0
    /\ queriedAt[event.name] = serviceCache[event.name].timestamp

\* C13: a resolve call started after the name's cache entry has expired, or
\* as the first after the proxy error handler dropped the entry, sends a
\* query to the registry; it is not served from the cache, whatever other
\* calls for the name are in flight.
C13_Claim ==
    [][event'.op = "resolve"
          /\ \/ invalidated[event'.name]
             \/ /\ event'.name \in DOMAIN serviceCache
                /\ Age(event'.name) >= CACHE_TTL
       => Queried']_vars

\* A discovery that did not end with a 200 carrying a url.
FailureKinds == {"unreachable", "nourl", "notfound", "unhealthy"}

\* C14: a resolve call is served from the cache only with an entry younger
\* than CACHE_TTL; and when the discovery fails for a name the fallback
\* table does not list, the call fails and the gateway answers 503 without
\* routing the request, also when an expired entry of the name is still in
\* the cache.
C14_NoStaleUrl ==
    /\ [][event'.via = "cache" =>
             /\ event'.name \in DOMAIN serviceCache
             /\ Age(event'.name) < CACHE_TTL
             /\ event'.url = serviceCache[event'.name].url]_vars
    /\ [][event'.op = "reply" /\ event'.kind \in FailureKinds
             /\ event'.name \notin DOMAIN FallbackUrls
          => /\ event'.code = 503
             /\ event'.url = ""
             /\ calls' = calls (-) SetToBag({Call(event'.name, "discover")})]_vars

\* The discovery for a name that the table does not list has failed with an
\* expired entry of the name in the cache, and the gateway answered 503.
C14_Witness ==
    /\ event.op = "reply"
    /\ event.code = 503
    /\ event.name \in DOMAIN serviceCache
    /\ Age(event.name) >= CACHE_TTL

\* C15: whatever the kind of failure of the discovery (no answer, 404, 503,
\* a 2xx without url), the resolve call of a name the fallback table lists
\* returns the table's address and leaves the cache as it was; the cache
\* only ever holds urls the registry returned with a 200.
C15_FallbackNotCached ==
    /\ [][event'.op = "reply" /\ event'.kind \in FailureKinds
             /\ event'.name \in DOMAIN FallbackUrls
          => /\ event'.url = FallbackUrls[event'.name]
             /\ event'.via = "fallback"
             /\ event'.code = 0
             /\ serviceCache' = serviceCache]_vars
    /\ [](\A n \in DOMAIN serviceCache :
             serviceCache[n].url = RegisteredUrl[n])

\* A 503 of the registry was answered with the fallback address while the
\* cache held nothing for the name, so that the next call queries again.
C15_Witness ==
    /\ event.op = "reply"
    /\ event.kind = "unhealthy"
    /\ event.via = "fallback"
    /\ event.name \notin DOMAIN serviceCache

\* C19 as claimed: a request for a name the registry does not hold is never
\* routed to an address, cached or fallback, and when the gateway has dealt
\* with it the answer is 503.
C19_Claim ==
    (event.op \in {"resolve", "reply"} /\ registry[event.name] = "absent")
        => /\ event.url = ""
           /\ event.op = "reply" => event.code = 503

\* C19 amended: a request for a name the registry does not hold is answered
\* 503 when the cache has no entry of the name younger than CACHE_TTL and
\* the fallback table does not list the name.  With such an entry it is
\* routed to the cached url without a query; with a name the table lists it
\* is routed to the table's address once the query has failed.  A routed
\* request is answered by the upstream, or with 502 when the proxy fails.
C19_UnknownService ==
    /\ [][event'.op = "resolve" /\ registry[event'.name] = "absent" =>
             IF event'.name \in DOMAIN serviceCache
                /\ Age(event'.name) < CACHE_TTL
             THEN event'.url = serviceCache[event'.name].url
             ELSE Queried']_vars
    /\ [][event'.op = "reply" /\ registry[event'.name] = "absent" =>
             IF event'.name \in DOMAIN FallbackUrls
             THEN event'.url = FallbackUrls[event'.name] /\ event'.code = 0
             ELSE event'.url = "" /\ event'.code = 503]_vars
    /\ [][event'.op = "proxied" => event'.code \in {200, 502}]_vars

\* The registry answered 404 for a name it does not hold and the request
\* was routed to the fallback address.
C19_Witness ==
    /\ event.op = "reply"
    /\ event.kind = "notfound"
    /\ registry[event.name] = "absent"
    /\ event.via = "fallback"

\* C16: registerWithRetry makes at most maxRetries attempts, one at a time;
\* no attempt follows one that was answered with a 2xx; and an attempt that
\* got no answer is followed by the wait for the next attempt as long as
\* fewer than maxRetries attempts have been made.
C16_BoundedAttempts ==
    /\ [](attempt <= maxRetries)
    /\ [][attempt' # attempt =>
             /\ attempt' = attempt + 1
             /\ phase # "sending" /\ phase' = "sending"
             /\ lastAnswer # "201"
             /\ returned = "none"]_vars
    /\ [][phase = "sending" /\ lastAnswer' = "error" /\ attempt < maxRetries
             /\ phase' \in {"waiting", "returned"}
          => phase' = "waiting"]_vars
    /\ [](phase = "waiting" => lastAnswer # "201" /\ attempt < maxRetries)

\* The fifth attempt is being sent after four that got no answer.
C16_Witness ==
    /\ phase = "sending"
    /\ attempt = maxRetries
    /\ lastAnswer = "error"

\* C17: registerWithRetry never throws: it returns failure exactly after
\* maxRetries attempts of which the last failed too (no answer, or an
\* answer that is not 2xx), and success only after an attempt that was
\* answered with a 2xx.
C17_NeverFatal ==
    /\ returned # "thrown"
    /\ (phase = "returned") = (returned \in {"success", "failure"})
    /\ returned = "failure" => attempt = maxRetries /\ lastAnswer \in {"error", "400", "500"}
    /\ returned = "success" => lastAnswer = "201"
    /\ (phase = "returned" /\ lastAnswer # "201") => returned = "failure"

\* The last attempt was answered with a 500 and the helper returned
\* {success: false}.
C17_Witness ==
    /\ phase = "returned"
    /\ returned = "failure"
    /\ lastAnswer = "500"

\* C18: after the registry has answered an attempt with 400, the helper
\* makes no further attempt with the same request.
C18_Claim ==
    [][lastAnswer = "400" => attempt' = attempt]_vars

\* A descriptor as a read may return it: never polled and healthy as
\* registered, or carrying both writes of a completed poll; and with a
\* failure counter below the threshold.
Whole(service) ==
    /\ service.lastHealthCheck = 0 => service.status = "healthy"
    /\ CounterGet(failedChecks, service.name) < MAX_FAILED_CHECKS

\* C21: no read sees a partly applied poll.  Every descriptor that list,
\* get or discover can return is whole, in every state; and a step changes
\* the status or the time of the last check of a descriptor that stays in
\* the store only as a completed poll of that descriptor, which sets both
\* together, or as a registration of its name.
C21_ReadsSeeWholePolls ==
    /\ [](\A i \in 1..Len(ListResponse.services) :
             Whole(ListResponse.services[i]))
    /\ [](\A n \in Names :
             /\ GetResponse(n).code = 200 => Whole(GetResponse(n).service)
             /\ DiscoverResponse(n).code = 503 =>
                    Whole(DiscoverResponse(n).service))
    /\ [](req.op = "list" => res.services = services)
    /\ [][\A n \in Names :
            (/\ HasIn(services, n) /\ HasIn(services', n)
             /\ ~(req'.op = "register" /\ req'.name = n)
             /\ \/ services'[IndexOf(services', n)].status # Get(n).status
                \/ services'[IndexOf(services', n)].lastHealthCheck
                      # Get(n).lastHealthCheck)
            => /\ polled'.name = n /\ ~polled'.detached
               /\ services'[IndexOf(services', n)].lastHealthCheck = 1
               /\ services'[IndexOf(services', n)].status =
                     IF polled'.healthy THEN "healthy" ELSE "unhealthy"]_vars

\* A list call made while a sweep is polling one service has returned
\* another that the same round of polls found unhealthy.
C21_Witness ==
    /\ req.op = "list"
    /\ \E i \in 1..Len(res.services) :
          /\ res.services[i].status = "unhealthy"
          /\ res.services[i].lastHealthCheck = 1
          /\ \E sw \in BagToSet(sweeps) : sw.name # res.services[i].name

\* C22: a failed poll does not end the sweep: after it, also when it has
\* removed the descriptor, the sweep goes on to the next entry of the Map
\* as long as there is one; and every sweep that has started finishes.
C22_Claim ==
    /\ [][(polled'.name # "" /\ ~polled'.healthy /\ sweeps' = EmptyBag) =>
             \A sw \in BagToSet(sweeps) :
                 (IF polled'.removed THEN Displace(sw, sw.name,
                                                   IndexOf(services, sw.name))
                  ELSE sw).pos >= Len(services')]_vars
    /\ (sweeps # EmptyBag) ~> (sweeps = EmptyBag)

\* C23: within one sweep at most one poll is in flight at any time, so no
\* descriptor is polled twice at once by the same sweep.  With one sweep
\* running at a time, the polls in flight are those of that sweep.
C23_OnePollPerSweep ==
    /\ BagCardinality(sweeps) <= 1
    /\ \A sw \in BagToSet(sweeps) : CopiesIn(sw, sweeps) = 1

\* A sweep that has completed the poll of one descriptor awaits the poll of
\* the next.
C23_Witness ==
    /\ polled.name # ""
    /\ \E sw \in BagToSet(sweeps) : sw.pos = 2 /\ sw.name # polled.name

\* From here on no poll of the name succeeds and no request registers or
\* deregisters it.
FailingFor(name) ==
    /\ ~(polled.name = name /\ polled.healthy)
    /\ ~(req.op \in {"register", "deregister"} /\ req.name = name)

\* C24: a name whose polls all fail from some point on, and which is
\* neither registered again nor deregistered, is in the end removed for
\* good: discover answers 404 from then on.  The timer is taken to be able
\* to fire again and again (the bound on the running sweeps is not reached
\* for ever).
C24_EvictionLive ==
    \A n \in Names :
        (<>[]FailingFor(n) /\ []<>(BagCardinality(sweeps) < MaxSweeps))
            => <>[](DiscoverResponse(n).code = 404)

\* The third failed poll in a row has removed a descriptor that no request
\* touched meanwhile.
C24_Witness ==
    /\ polled.name # "" /\ ~polled.healthy /\ polled.removed
    /\ polled.prior = MAX_FAILED_CHECKS - 1
    /\ ~polled.detached
    /\ DiscoverResponse(polled.name).code = 404

\* C25: no name has two periodic polls in flight at the same time.
C25_Claim ==
    \A n \in Names :
        /\ Cardinality({sw \in BagToSet(sweeps) : sw.name = n}) <= 1
        /\ \A sw \in BagToSet(sweeps) : sw.name = n => CopiesIn(sw, sweeps) <= 1

\* C26: the status of every stored descriptor agrees with its name's
\* failure counter: healthy exactly when the counter is 0, unhealthy
\* exactly when it is between 1 and the threshold less one.
C26_Claim ==
    \A i \in 1..Len(services) :
        LET count == CounterGet(failedChecks, services[i].name)
        IN /\ services[i].status = "healthy" <=> count = 0
           /\ services[i].status = "unhealthy"
                  <=> count \in 1..(MAX_FAILED_CHECKS - 1)

\* C27: the failure counter of every stored descriptor lies in
\* 0 .. MAX_FAILED_CHECKS - 1, and a poll that takes the counter to the
\* threshold removes the descriptor and its counter in the same step.
C27_CounterBelowThreshold ==
    /\ \A i \in 1..Len(services) :
          CounterGet(failedChecks, services[i].name) \in 0..(MAX_FAILED_CHECKS - 1)
    /\ \A n \in DOMAIN failedChecks : failedChecks[n] \in 0..(MAX_FAILED_CHECKS - 1)
    /\ (polled.name # "" /\ ~polled.healthy /\ polled.prior + 1 >= MAX_FAILED_CHECKS)
          => ~Has(polled.name) /\ polled.name \notin DOMAIN failedChecks

\* A failed poll has found the counter at the threshold less one and has
\* removed the descriptor.
C27_Witness ==
    /\ polled.name # "" /\ ~polled.healthy /\ polled.removed
    /\ polled.prior + 1 = MAX_FAILED_CHECKS
    /\ ~Has(polled.name)
    /\ \E sw \in BagToSet(sweeps) : TRUE

\* C28: a name that discover answers with its address goes on being
\* answered so for as long as no poll of the name fails and no request
\* deregisters it: the step that ends it is a failed poll of the name or
\* its deregistration, and a registration leaves the name discoverable.
C28_HealthyNeverPenalised ==
    [][\A n \in Names :
         /\ (DiscoverResponse(n).code = 200 /\ (DiscoverResponse(n).code # 200)')
               => \/ polled'.name = n /\ ~polled'.healthy
                  \/ req'.op = "deregister" /\ req'.name = n
         /\ (req'.op = "register" /\ req'.name = n /\ res'.code = 201)
               => (DiscoverResponse(n).code = 200)']_vars

\* A successful poll of a registered name has returned while another
\* sweep is running, and discover answers the name with its address.
C28_Witness ==
    /\ polled.name # "" /\ polled.healthy /\ ~polled.detached
    /\ DiscoverResponse(polled.name).code = 200
    /\ Get(polled.name).lastHealthCheck = 1
    /\ sweeps # EmptyBag

\* C29: the failure of a proxied request drops the name's cache entry only
\* if the entry still holds the url the request was routed to.
C29_Claim ==
    [][(/\ event'.op = "proxied" /\ event'.code = 502
        /\ event'.name \in DOMAIN serviceCache
        /\ serviceCache[event'.name].url # event'.url)
          => serviceCache' = serviceCache]_vars

\* C30: registerWithRetry always terminates: a call that has sent an
\* attempt returns, after at most maxRetries attempts.
C30_Claim ==
    /\ [](attempt <= maxRetries)
    /\ (phase = "sending") ~> (phase = "returned")
=============================================================================
